---- MODULE Spec2Model ----
(***************************************************************************)
(* Employee management system (src/main.py): the employees table in the   *)
(* SQLite file employees.db, the Store functions load_employees,          *)
(* add_employee, update_employee and delete_employee, the Bulk Loader      *)
(* load_csv_to_db, and the Streamlit script run that calls them.          *)
(*                                                                         *)
(* Streamlit runs the whole script top to bottom once per user            *)
(* interaction, one run per browser session at a time, each session in    *)
(* its own thread.  Spec schedules the runs one after the other (the      *)
(* scheduling spec section 5 describes); SpecConc lets the runs of        *)
(* different sessions interleave between database statements.             *)
(***************************************************************************)
EXTENDS Integers, FiniteSets, Sequences, TLC

\* ------------------------------------------------------------- bounds
NumSessions == 2    \* browser sessions served by the one process
MaxId == 2          \* largest row id the model lets the table hand out
MaxCsvRows == 2     \* longest employees.csv the loader is given

Sessions == 1..NumSessions
Ids == 1..MaxId

\* ------------------------------------------------------------- schema
\* The five business columns of Employee (the id is the key of the table).
Columns == {"name", "position", "email", "salary", "department"}

\* What a pandas NaN / SQL NULL cell is in a CSV row.
NULL == "NULL"
\* Python's None: Query.get gives None for a missing key and the one row
\* otherwise, here the empty tuple and the tuple of the row.
None == << >>

Names == {"Alice", "Bob"}
Positions == {"Engineer"}
Emails == {"alice@x.com", "bob@x.com", "carol@x.com"}
Salaries == {90000}
Departments == {"Eng"}

\* The field tuples the forms can submit: text inputs are strings, never NULL.
Fields == [name : Names, position : Positions, email : Emails,
           salary : Salaries, department : Departments]

\* Rows the CSV files of the model hold: a cell may be empty (NULL), and two
\* rows may carry the same email.
CsvRows == [name : {"Alice", NULL}, position : Positions,
            email : {"alice@x.com", "bob@x.com"},
            salary : Salaries, department : Departments]

Max(S) == CHOOSE x \in S : \A y \in S : y <= x

EmptyTable == [i \in {} |-> None]

\* Mutant: the email column without unique=True.
EmailTaken_NoConstraint(t, email, except) == FALSE

\* unique=True on email: some row other than those in `except` holds `email`.
EmailTaken(t, email, except) ==
    \E j \in (DOMAIN t) \ except : t[j].email = email

\* nullable=False on the five business columns.
HasNull(row) == \E c \in Columns \ {"salary"} : row[c] = NULL

\* INTEGER PRIMARY KEY without the AUTOINCREMENT keyword (SQLAlchemy renders
\* it only under sqlite_autoincrement=True): SQLite gives a new row one more
\* than the largest id now in the table, 1 in an empty table.
NextRowId(t) == IF DOMAIN t = {} THEN 1 ELSE Max(DOMAIN t) + 1

\* One INSERT of `row`: the table with the row under a new id.
InsertRow(t, row) ==
    [i \in (DOMAIN t) \cup {NextRowId(t)} |->
        IF i = NextRowId(t) THEN row ELSE t[i]]

\* ------------------------------------------------------------- store
\* session.query(Employee).get(id)
Get(t, id) == IF id \in DOMAIN t THEN <<t[id]>> ELSE None

\* Mutant: the row is inserted before the unique index is consulted, so a
\* duplicate email raises after the insert has taken effect.
add_employee_PartialInsert(t, f) ==
    IF EmailTaken(t, f.email, {})
    THEN [table |-> InsertRow(t, f), outcome |-> "IntegrityError",
          closed |-> FALSE]
    ELSE [table |-> InsertRow(t, f), outcome |-> "returned", closed |-> TRUE]

\* add_employee: the INSERT and COMMIT of session.commit().  A duplicate
\* email raises IntegrityError out of commit, past session.close().
add_employee(t, f) ==
    IF EmailTaken(t, f.email, {})
    THEN [table |-> t, outcome |-> "IntegrityError", closed |-> FALSE]
    ELSE [table |-> InsertRow(t, f), outcome |-> "returned", closed |-> TRUE]

\* The columns whose assigned value differs from the value the session
\* loaded: the unit of work writes only these.
Changed(row, f) == {c \in Columns : row[c] # f[c]}

\* Mutant: update_employee without the assignment employee.name = name.
UpdateFlush_SkipName(t, id, row, f) ==
    IF Changed(row, f) \ {"name"} = {}
    THEN [table |-> t, outcome |-> "returned", closed |-> TRUE]
    ELSE IF id \notin DOMAIN t
    THEN [table |-> t, outcome |-> "StaleDataError", closed |-> FALSE]
    ELSE IF "email" \in Changed(row, f) /\ EmailTaken(t, f.email, {id})
    THEN [table |-> t, outcome |-> "IntegrityError", closed |-> FALSE]
    ELSE [table |-> [t EXCEPT ![id] =
                        [c \in Columns |->
                            IF c \in Changed(row, f) \ {"name"}
                            THEN f[c] ELSE t[id][c]]],
          outcome |-> "returned", closed |-> TRUE]

\* The flush and commit of update_employee, for an object loaded as `row`
\* under `id`: UPDATE employees SET <changed columns> WHERE id = ?, nothing
\* when no column changed.  An UPDATE that matches no row raises
\* StaleDataError; one that breaks the unique email raises IntegrityError.
UpdateFlush(t, id, row, f) ==
    IF Changed(row, f) = {}
    THEN [table |-> t, outcome |-> "returned", closed |-> TRUE]
    ELSE IF id \notin DOMAIN t
    THEN [table |-> t, outcome |-> "StaleDataError", closed |-> FALSE]
    ELSE IF "email" \in Changed(row, f) /\ EmailTaken(t, f.email, {id})
    THEN [table |-> t, outcome |-> "IntegrityError", closed |-> FALSE]
    ELSE [table |-> [t EXCEPT ![id] =
                        [c \in Columns |->
                            IF c \in Changed(row, f) THEN f[c] ELSE t[id][c]]],
          outcome |-> "returned", closed |-> TRUE]

\* Mutant: a DELETE that matches no row raises, as an UPDATE does.
DeleteFlush_Strict(t, id) ==
    IF id \in DOMAIN t
    THEN [table |-> [i \in (DOMAIN t) \ {id} |-> t[i]],
          outcome |-> "returned", closed |-> TRUE]
    ELSE [table |-> t, outcome |-> "StaleDataError", closed |-> FALSE]

\* The flush and commit of delete_employee: DELETE FROM employees WHERE
\* id = ?.  A DELETE that matches no row only warns.
DeleteFlush(t, id) ==
    [table |-> [i \in (DOMAIN t) \ {id} |-> t[i]],
     outcome |-> "returned", closed |-> TRUE]

\* Mutant: the record is fetched with Query.one(), which raises for a
\* missing key.
NotFound_Raises(t) ==
    [table |-> t, outcome |-> "NoResultFound", closed |-> FALSE]

\* The path of update_employee and delete_employee on which `if employee:`
\* is false: only session.close() runs.
NotFound(t) == [table |-> t, outcome |-> "returned", closed |-> TRUE]

\* update_employee as one call.
update_employee(t, id, f) ==
    IF Get(t, id) = None
    THEN NotFound(t)
    ELSE UpdateFlush(t, id, Get(t, id)[1], f)

\* delete_employee as one call.
delete_employee(t, id) ==
    IF Get(t, id) = None
    THEN NotFound(t)
    ELSE DeleteFlush(t, id)

\* ------------------------------------------------------------- bulk loader
Required == Columns

\* employees.csv as the loader finds it: absent, unreadable by pd.read_csv,
\* or a header and rows.
NoFile == [exists |-> FALSE, parses |-> FALSE, columns |-> {}, rows |-> << >>]

UnreadableFile ==
    [exists |-> TRUE, parses |-> FALSE, columns |-> {}, rows |-> << >>]

\* Files whose header lacks one of the required columns.
ShortFiles ==
    {[exists |-> TRUE, parses |-> TRUE, columns |-> Required \ {c},
      rows |-> << >>] : c \in Required}

\* Files with every required column.
FullFiles ==
    {[exists |-> TRUE, parses |-> TRUE, columns |-> Required, rows |-> r] :
        r \in UNION {[1..n -> CsvRows] : n \in 0..MaxCsvRows}}

CsvFiles == {NoFile, UnreadableFile} \cup ShortFiles \cup FullFiles

\* df.to_sql(..., if_exists='append') into the empty table: the rows in
\* order, in one transaction, which the first failing row rolls back.  The
\* error is the text of the exception the loader prints.
RECURSIVE ToSql(_, _)
ToSql(t, rows) ==
    IF rows = << >> THEN [error |-> "", table |-> t]
    ELSE IF HasNull(Head(rows))
    THEN [error |-> "NOT NULL constraint failed", table |-> EmptyTable]
    ELSE IF EmailTaken(t, Head(rows).email, {})
    THEN [error |-> "UNIQUE constraint failed", table |-> EmptyTable]
    ELSE ToSql(InsertRow(t, Head(rows)), Tail(rows))

\* Mutant: the table is dropped and recreated before the columns are
\* checked.
load_csv_to_db_DropFirst(t, csv) ==
    IF ~csv.exists
    THEN [table |-> t, log |-> "not_found", dropped |-> FALSE]
    ELSE IF ~csv.parses
    THEN [table |-> t, log |-> "Error loading CSV: parse", dropped |-> FALSE]
    ELSE IF ~(Required \subseteq csv.columns)
    THEN [table |-> EmptyTable, log |-> "missing_columns", dropped |-> TRUE]
    ELSE IF ToSql(EmptyTable, csv.rows).error = ""
    THEN [table |-> ToSql(EmptyTable, csv.rows).table, log |-> "loaded",
          dropped |-> TRUE]
    ELSE [table |-> EmptyTable, log |-> ToSql(EmptyTable, csv.rows).error,
          dropped |-> TRUE]

\* load_csv_to_db
load_csv_to_db(t, csv) ==
    IF ~csv.exists
    THEN [table |-> t, log |-> "not_found", dropped |-> FALSE]
    ELSE IF ~csv.parses
    THEN [table |-> t, log |-> "Error loading CSV: parse", dropped |-> FALSE]
    ELSE IF ~(Required \subseteq csv.columns)
    THEN [table |-> t, log |-> "missing_columns", dropped |-> FALSE]
    ELSE IF ToSql(EmptyTable, csv.rows).error = ""
    THEN [table |-> ToSql(EmptyTable, csv.rows).table, log |-> "loaded",
          dropped |-> TRUE]
    ELSE [table |-> EmptyTable, log |-> ToSql(EmptyTable, csv.rows).error,
          dropped |-> TRUE]

\* ------------------------------------------------------------- state
VARIABLES
    table,      \* the employees table: id -> row
    issued,     \* ids the table has handed out since it was last created
    db_loaded,  \* st.session_state.db_loaded of each session
    loads,      \* how many times load_csv_to_db has run in this process
    pc,         \* where each session's script run is
    df,         \* the ids in the dashboard DataFrame of the run in progress
    obj,        \* the Employee a call in progress has loaded: id and row
    last        \* the latest Store or Bulk Loader call and how it ended

vars == <<table, issued, db_loaded, loads, pc, df, obj, last>>

\* What is recorded of a call: the function, how it ended ("returned" or
\* the exception that left it), the loader's log line, whether the call
\* found the record it asked for, whether its session.close() ran, and
\* the status the page shows for it.
Call(op, outcome, log, found, closed, ui) ==
    [op |-> op, outcome |-> outcome, log |-> log, found |-> found,
     closed |-> closed, ui |-> ui]

\* st.success after a call that returned; Streamlit's exception box after
\* one that raised.
Status(outcome) == IF outcome = "returned" THEN "success" ELSE "exception"

\* Tables an employees.db left by an earlier process can hold.
InitTables ==
    {EmptyTable}
    \cup {[i \in {1} |-> f] : f \in Fields}

Init ==
    /\ table \in InitTables
    /\ issued = DOMAIN table
    /\ db_loaded = [s \in Sessions |-> FALSE]
    /\ loads = 0
    /\ pc = [s \in Sessions |-> "idle"]
    /\ df = [s \in Sessions |-> {}]
    /\ obj = [s \in Sessions |-> None]
    /\ last = Call("none", "returned", "", FALSE, TRUE, "none")

\* ------------------------------------------------------------- script run
\* Lines 81-88: the db_loaded guard at the top of every script run.
ScriptTop(s, csv) ==
    /\ pc[s] = "idle"
    /\ pc' = [pc EXCEPT ![s] = "dashboard"]
    /\ IF db_loaded[s]
       THEN UNCHANGED <<table, issued, db_loaded, loads, last>>
       ELSE /\ table' = load_csv_to_db(table, csv).table
            /\ issued' = IF load_csv_to_db(table, csv).dropped
                         THEN DOMAIN table' ELSE issued
            /\ db_loaded' = [db_loaded EXCEPT ![s] = TRUE]
            /\ loads' = loads + 1
            /\ last' = Call("load_csv_to_db", "returned",
                            load_csv_to_db(table, csv).log, FALSE, TRUE,
                            "success")
    /\ UNCHANGED <<df, obj>>

\* Lines 129-131: load_employees and the DataFrame built from it.
Dashboard(s) ==
    /\ pc[s] = "dashboard"
    /\ pc' = [pc EXCEPT ![s] = "forms"]
    /\ df' = [df EXCEPT ![s] = DOMAIN table]
    /\ last' = Call("load_employees", "returned", "", FALSE, TRUE, "none")
    /\ UNCHANGED <<table, issued, db_loaded, loads, obj>>

\* The run reaches the end of the script with no button pressed.
NoClick(s) ==
    /\ pc[s] = "forms"
    /\ pc' = [pc EXCEPT ![s] = "idle"]
    /\ df' = [df EXCEPT ![s] = {}]
    /\ UNCHANGED <<table, issued, db_loaded, loads, obj, last>>

\* Lines 186-189: the Add Employee button.
AddButton(s, f) ==
    /\ pc[s] = "forms"
    /\ NextRowId(table) <= MaxId
    /\ table' = add_employee(table, f).table
    /\ issued' = issued \cup DOMAIN table'
    /\ last' = Call("add_employee", add_employee(table, f).outcome, "", FALSE,
                    add_employee(table, f).closed,
                    Status(add_employee(table, f).outcome))
    /\ pc' = [pc EXCEPT ![s] = "idle"]
    /\ df' = [df EXCEPT ![s] = {}]
    /\ UNCHANGED <<db_loaded, loads, obj>>

\* Lines 159-170: the Update Employee button, shown when the id entered is
\* in the DataFrame.
UpdateButton(s, id, f) ==
    /\ pc[s] = "forms"
    /\ id \in df[s]
    /\ table' = update_employee(table, id, f).table
    /\ last' = Call("update_employee", update_employee(table, id, f).outcome,
                    "", Get(table, id) # None,
                    update_employee(table, id, f).closed,
                    Status(update_employee(table, id, f).outcome))
    /\ pc' = [pc EXCEPT ![s] = "idle"]
    /\ df' = [df EXCEPT ![s] = {}]
    /\ UNCHANGED <<issued, db_loaded, loads, obj>>

\* Lines 173-177: the Delete Employee button, for any id entered.
DeleteButton(s, id) ==
    /\ pc[s] = "forms"
    /\ table' = delete_employee(table, id).table
    /\ last' = Call("delete_employee", delete_employee(table, id).outcome,
                    "", Get(table, id) # None,
                    delete_employee(table, id).closed,
                    Status(delete_employee(table, id).outcome))
    /\ pc' = [pc EXCEPT ![s] = "idle"]
    /\ df' = [df EXCEPT ![s] = {}]
    /\ UNCHANGED <<issued, db_loaded, loads, obj>>

\* The file is read only by a run whose guard lets the loader run.
CsvRead(s) ==
    IF db_loaded[s] THEN {NoFile} ELSE CsvFiles

\* One script run at a time: no other session's run is in progress.
Alone(s) == \A t \in Sessions \ {s} : pc[t] = "idle"

Next ==
    \/ \E s \in Sessions : \E csv \in CsvRead(s) : Alone(s) /\ ScriptTop(s, csv)
    \/ \E s \in Sessions : Alone(s) /\ Dashboard(s)
    \/ \E s \in Sessions : Alone(s) /\ NoClick(s)
    \/ \E s \in Sessions, f \in Fields : Alone(s) /\ AddButton(s, f)
    \/ \E s \in Sessions, id \in Ids, f \in Fields :
            Alone(s) /\ UpdateButton(s, id, f)
    \/ \E s \in Sessions, id \in Ids : Alone(s) /\ DeleteButton(s, id)

Spec == Init /\ [][Next]_vars

\* ------------------------------------------------------------- interleaved
\* update_employee up to its first statement on the database, the SELECT of
\* get(id): a missing record ends the call, a found one is held by the
\* session until the flush.
UpdateGet(s, id) ==
    /\ pc[s] = "forms"
    /\ id \in df[s]
    /\ IF Get(table, id) = None
       THEN /\ last' = Call("update_employee", NotFound(table).outcome, "",
                            FALSE, NotFound(table).closed,
                            Status(NotFound(table).outcome))
            /\ table' = NotFound(table).table
            /\ pc' = [pc EXCEPT ![s] = "idle"]
            /\ df' = [df EXCEPT ![s] = {}]
            /\ UNCHANGED obj
       ELSE /\ obj' = [obj EXCEPT ![s] = <<id, Get(table, id)[1]>>]
            /\ pc' = [pc EXCEPT ![s] = "update_flush"]
            /\ UNCHANGED <<table, df, last>>
    /\ UNCHANGED <<issued, db_loaded, loads>>

\* The rest of update_employee: the five assignments and session.commit().
\* The field values are the call's arguments; nothing reads them before the
\* flush, so they are drawn here.
UpdateCommit(s, f) ==
    /\ pc[s] = "update_flush"
    /\ table' = UpdateFlush(table, obj[s][1], obj[s][2], f).table
    /\ last' = Call("update_employee",
                    UpdateFlush(table, obj[s][1], obj[s][2], f).outcome, "",
                    TRUE, UpdateFlush(table, obj[s][1], obj[s][2], f).closed,
                    Status(UpdateFlush(table, obj[s][1], obj[s][2], f).outcome))
    /\ pc' = [pc EXCEPT ![s] = "idle"]
    /\ df' = [df EXCEPT ![s] = {}]
    /\ obj' = [obj EXCEPT ![s] = None]
    /\ UNCHANGED <<issued, db_loaded, loads>>

\* delete_employee up to the SELECT of get(id).
DeleteGet(s, id) ==
    /\ pc[s] = "forms"
    /\ IF Get(table, id) = None
       THEN /\ last' = Call("delete_employee", NotFound(table).outcome, "",
                            FALSE, NotFound(table).closed,
                            Status(NotFound(table).outcome))
            /\ table' = NotFound(table).table
            /\ pc' = [pc EXCEPT ![s] = "idle"]
            /\ df' = [df EXCEPT ![s] = {}]
            /\ UNCHANGED obj
       ELSE /\ obj' = [obj EXCEPT ![s] = <<id, Get(table, id)[1]>>]
            /\ pc' = [pc EXCEPT ![s] = "delete_flush"]
            /\ UNCHANGED <<table, df, last>>
    /\ UNCHANGED <<issued, db_loaded, loads>>

\* The rest of delete_employee: session.delete and session.commit().
DeleteCommit(s) ==
    /\ pc[s] = "delete_flush"
    /\ table' = DeleteFlush(table, obj[s][1]).table
    /\ last' = Call("delete_employee", DeleteFlush(table, obj[s][1]).outcome,
                    "", TRUE, DeleteFlush(table, obj[s][1]).closed,
                    Status(DeleteFlush(table, obj[s][1]).outcome))
    /\ pc' = [pc EXCEPT ![s] = "idle"]
    /\ df' = [df EXCEPT ![s] = {}]
    /\ obj' = [obj EXCEPT ![s] = None]
    /\ UNCHANGED <<issued, db_loaded, loads>>

\* The sessions' threads interleave between statements on the database.
NextConc ==
    \/ \E s \in Sessions : \E csv \in CsvRead(s) : ScriptTop(s, csv)
    \/ \E s \in Sessions : Dashboard(s)
    \/ \E s \in Sessions : NoClick(s)
    \/ \E s \in Sessions, f \in Fields : AddButton(s, f)
    \/ \E s \in Sessions, id \in Ids : UpdateGet(s, id)
    \/ \E s \in Sessions, f \in Fields : UpdateCommit(s, f)
    \/ \E s \in Sessions, id \in Ids : DeleteGet(s, id)
    \/ \E s \in Sessions : DeleteCommit(s)

SpecConc == Init /\ [][NextConc]_vars

\* ------------------------------------------------------------- properties
\* A step of the loader proper: the guard of session s let load_csv_to_db
\* run on the file csv.
LoadStep(s, csv) == ~db_loaded[s] /\ ScriptTop(s, csv)

\* The log lines of a load that failed.
LoadErrors ==
    {"Error loading CSV: parse", "NOT NULL constraint failed",
     "UNIQUE constraint failed"}

\* A step in which load_csv_to_db ran and df.to_sql failed on a duplicate
\* email.
DuplicateEmailLoad ==
    loads' = loads + 1 /\ last'.log = "UNIQUE constraint failed"

UniqueEmails == \A i, j \in DOMAIN table : table[i].email = table[j].email => i = j

\* C1: the id add_employee gives a new record was never given to a record
\* of this table before, deleted records included.
C1_FreshId ==
    [][last'.op = "add_employee" =>
        \A i \in (DOMAIN table') \ (DOMAIN table) : i \notin issued]_vars

\* C2: add_employee with the email of an existing record raises the
\* constraint violation and leaves the table as it was.
C2_DuplicateCreateFails ==
    [][\A s \in Sessions, f \in Fields :
        (AddButton(s, f) /\ EmailTaken(table, f.email, {}))
            => (last'.outcome = "IntegrityError" /\ table' = table)]_vars

C2_Witness ==
    /\ last.op = "add_employee"
    /\ last.outcome = "IntegrityError"
    /\ DOMAIN table # {}

\* C3: update_employee and delete_employee of an id that is in no row
\* return without raising and leave the table as it was.
C3_MissingIdNoOp ==
    [][\A s \in Sessions, id \in Ids :
        ((UpdateGet(s, id) \/ DeleteGet(s, id)) /\ id \notin DOMAIN table)
            => (table' = table /\ last'.outcome = "returned"
                /\ pc'[s] = "idle")]_vars

C3_Witness ==
    /\ last.op = "update_employee"
    /\ ~last.found
    /\ last.outcome = "returned"

\* C4 as stated: update_employee of an existing id leaves that row equal to
\* the given fields, whatever the fields, and every other row as it was.
C4_UpdateRoundTrip ==
    [][\A s \in Sessions, id \in Ids, f \in Fields :
        UpdateButton(s, id, f)
            => /\ DOMAIN table' = DOMAIN table
               /\ table'[id] = f
               /\ \A j \in (DOMAIN table) \ {id} : table'[j] = table[j]]_vars

\* C4 as amended: the round trip holds when the email is that of no other
\* record; when it is, update_employee raises the constraint violation and
\* no row changes.
C4_UpdateRoundTripUniqueEmail ==
    [][\A s \in Sessions, id \in Ids, f \in Fields :
        UpdateButton(s, id, f)
            => IF EmailTaken(table, f.email, {id})
               THEN last'.outcome = "IntegrityError" /\ table' = table
               ELSE /\ last'.outcome = "returned"
                    /\ DOMAIN table' = DOMAIN table
                    /\ table'[id] = f
                    /\ \A j \in (DOMAIN table) \ {id} : table'[j] = table[j]]_vars

C4_Witness ==
    /\ last.op = "update_employee"
    /\ last.found
    /\ last.outcome = "returned"
    /\ Cardinality(DOMAIN table) > 1

\* C5: with no CSV file, or a CSV lacking a required column, the loader
\* returns without raising, and the table, its rows and their ids are as
\* they were: the drop is not reached.
C5_LoaderRejectsWithoutMutation ==
    [][\A s \in Sessions, csv \in {NoFile} \cup ShortFiles :
        LoadStep(s, csv)
            => /\ table' = table
               /\ issued' = issued
               /\ ~load_csv_to_db(table, csv).dropped
               /\ last'.outcome = "returned"
               /\ last'.log \in {"not_found", "missing_columns"}]_vars

C5_Witness ==
    /\ last.op = "load_csv_to_db"
    /\ last.log = "missing_columns"
    /\ DOMAIN table # {}

\* C6: load_csv_to_db runs at most once in the process, however many
\* sessions and reruns there are.
C6_LoadAtMostOnce == loads <= 1

\* C7: no exception leaves a Store or Bulk Loader call, and the page shows
\* success for no call that failed.
C7_FailuresCaught ==
    /\ last.outcome = "returned"
    /\ ~(last.ui = "success" /\ last.log \in LoadErrors)

\* C8: the database session a finished call opened is closed.
C8_SessionReleased == last.closed

\* C9 as stated: emails and ids stay unique, and a write that would break
\* the uniqueness of emails (add, update, or a CSV with a duplicate email)
\* changes no row.
C9_UniqueAndViolatingWriteChangesNothing ==
    /\ []UniqueEmails
    /\ [][/\ \A s \in Sessions, f \in Fields :
                (AddButton(s, f) /\ EmailTaken(table, f.email, {}))
                    => table' = table
          /\ \A s \in Sessions, id \in Ids, f \in Fields :
                (UpdateButton(s, id, f) /\ EmailTaken(table, f.email, {id}))
                    => table' = table
          /\ DuplicateEmailLoad => table' = table]_vars

\* C9 as amended: emails and ids stay unique; an add or update that would
\* break the uniqueness of emails changes no row; the load of a CSV with a
\* duplicate email fails after the drop and leaves the table empty.
C9_UniqueAndViolatingWriteFails ==
    /\ []UniqueEmails
    /\ [][/\ \A s \in Sessions, f \in Fields :
                (AddButton(s, f) /\ EmailTaken(table, f.email, {}))
                    => table' = table
          /\ \A s \in Sessions, id \in Ids, f \in Fields :
                (UpdateButton(s, id, f) /\ EmailTaken(table, f.email, {id}))
                    => table' = table
          /\ DuplicateEmailLoad => table' = EmptyTable]_vars

C9_Witness ==
    /\ last.op = "update_employee"
    /\ last.outcome = "IntegrityError"
    /\ UniqueEmails

====
